---- MODULE Spec2Model ----
(***************************************************************************)
(* Mission Control web server (src/server/load.py).                        *)
(*                                                                         *)
(* The program is a MissionControlHandler (a SimpleHTTPRequestHandler      *)
(* subclass overriding __init__, end_headers and do_GET) served by a       *)
(* socketserver.TCPServer from main().  The model follows main() statement *)
(* by statement and, for every request, the whole call chain the handler   *)
(* runs: handle_one_request, parse_request, the method dispatch, do_GET /  *)
(* do_HEAD, send_head, translate_path, send_error, send_response,          *)
(* send_header, end_headers.  The inherited methods are modelled as        *)
(* CPython 3.11 implements them.                                           *)
(*                                                                         *)
(* A request path is a sequence of tokens: the separator "/", the query    *)
(* token "?q" (a question mark and what follows it), and names, each name  *)
(* one token.  Request paths never put two names side by side, so every    *)
(* component between separators is one token or empty.  A filesystem path  *)
(* is the sequence of its components from the filesystem root.             *)
(***************************************************************************)
EXTENDS Integers, Sequences, FiniteSets, TLC

\* ------------------------------------------------------------------ bounds
MaxPathLen == 4   \* tokens of a request path, the query token not counted
MaxSigints == 2   \* interrupts delivered to the process in one run

\* ---------------------------------------------------------- configuration
PORT == 8000

\* os.path.abspath(__file__): where the program is deployed
ProgramFile == <<"srv", "proj", "src", "server", "load.py">>

dirname(p) == SubSeq(p, 1, Len(p) - 1)

DIRECTORY == dirname(dirname(dirname(ProgramFile)))

IndexPath == <<"/", "src", "/", "html", "/", "index.html">>

FixedHeaders ==
    { <<"Access-Control-Allow-Origin", "*">>,
      <<"Access-Control-Allow-Methods", "GET, OPTIONS">>,
      <<"Access-Control-Allow-Headers", "Content-Type">>,
      <<"Cache-Control", "no-store, no-cache, must-revalidate">> }

\* ------------------------------------------------------------- filesystem
\* Modification time of every file of the tree, and two dates a client can
\* put in If-Modified-Since, one before it and one not before it.
FileMTime == 5

NoNode == [type |-> "none", content |-> "", readable |-> FALSE]
Dir == [type |-> "dir", content |-> "", readable |-> TRUE]
File(c, r) == [type |-> "file", content |-> c, readable |-> r]

\* The files whose presence varies from one deployment to another.
FsChoices ==
    [ secret : {"absent", "file", "unreadable"},
      indexDoc : {"absent", "file"},
      rootIndex : {"absent", "file"} ]

\* The tree of a deployment: the directories that hold the program always
\* exist; /srv/secret.txt lies outside the served root.
FsNode(c, p) ==
    CASE p \in {<<>>, <<"srv">>, <<"srv", "proj">>, <<"srv", "proj", "src">>,
                <<"srv", "proj", "src", "server">>,
                <<"srv", "proj", "src", "html">>} -> Dir
      [] p = ProgramFile -> File("load.py source", TRUE)
      [] p = <<"srv", "secret.txt">> -> File("OUTSIDE", TRUE)
      [] p = <<"srv", "proj", "secret.txt">> /\ c.secret # "absent" ->
            File("INSIDE", c.secret = "file")
      [] p = <<"srv", "proj", "src", "html", "index.html">> /\ c.indexDoc = "file" ->
            File("<h1>ok</h1>", TRUE)
      [] p = <<"srv", "proj", "index.html">> /\ c.rootIndex = "file" ->
            File("root index", TRUE)
      [] OTHER -> NoNode

\* What the kernel does with the components of a path: "." stays, ".."
\* goes to the parent (the root is its own parent), a component under
\* something that is no directory does not resolve.
RECURSIVE Walk(_, _, _)
Walk(c, at, rest) ==
    IF rest = <<>> THEN <<TRUE, at>>
    ELSE IF FsNode(c, at).type # "dir" THEN <<FALSE, at>>
    ELSE IF Head(rest) = "." THEN Walk(c, at, Tail(rest))
    ELSE IF Head(rest) = ".."
         THEN Walk(c, IF at = <<>> THEN at ELSE dirname(at), Tail(rest))
    ELSE Walk(c, Append(at, Head(rest)), Tail(rest))

\* The node a path names, and where it really is.  A trailing slash names
\* the node only if it is a directory.
Locate(c, fp) ==
    LET w == Walk(c, <<>>, fp.parts)
        n == IF w[1] THEN FsNode(c, w[2]) ELSE NoNode
    IN  IF fp.trailing /\ n.type # "dir"
        THEN [node |-> NoNode, real |-> w[2]]
        ELSE [node |-> n, real |-> w[2]]

isdir(c, fp) == Locate(c, fp).node.type = "dir"
isfile(c, fp) == Locate(c, fp).node.type = "file"

\* ------------------------------------------------------------------ paths
Names == {"..", "%2e%2e", "secret.txt", "src"}

\* str.startswith / str.endswith on token sequences
StartsWith(s, pre) == Len(s) >= Len(pre) /\ SubSeq(s, 1, Len(pre)) = pre
EndsWithSlash(s) == s # <<>> /\ s[Len(s)] = "/"

\* path.split('?', 1)[0]: what precedes the query
RECURSIVE BeforeQuery(_)
BeforeQuery(s) ==
    IF s = <<>> \/ Head(s) = "?q" THEN <<>>
    ELSE <<Head(s)>> \o BeforeQuery(Tail(s))

\* urllib.parse.unquote, token by token
UnquoteToken(t) == IF t = "%2e%2e" THEN ".." ELSE t
Unquote(s) == [i \in 1..Len(s) |-> UnquoteToken(s[i])]

\* str.lstrip('/')
RECURSIVE LStripSlashes(_)
LStripSlashes(s) ==
    IF s # <<>> /\ Head(s) = "/" THEN LStripSlashes(Tail(s)) ELSE s

\* str.split('/'): the components between separators, "" for an empty one
RECURSIVE SplitAcc(_, _, _)
SplitAcc(s, cur, acc) ==
    IF s = <<>> THEN Append(acc, cur)
    ELSE IF Head(s) = "/" THEN SplitAcc(Tail(s), "", Append(acc, cur))
    ELSE SplitAcc(Tail(s), Head(s), acc)

Split(s) == SplitAcc(s, "", <<>>)

\* The loop of posixpath.normpath over the components.
RECURSIVE NormComps(_, _, _)
NormComps(comps, rooted, new) ==
    IF comps = <<>> THEN new
    ELSE LET comp == Head(comps)
             rest == Tail(comps)
         IN  IF comp \in {"", "."} THEN NormComps(rest, rooted, new)
             ELSE IF comp # ".."
                     \/ (~rooted /\ new = <<>>)
                     \/ (new # <<>> /\ new[Len(new)] = "..")
                  THEN NormComps(rest, rooted, Append(new, comp))
             ELSE IF new # <<>>
                  THEN NormComps(rest, rooted, SubSeq(new, 1, Len(new) - 1))
             ELSE NormComps(rest, rooted, new)

\* posixpath.normpath followed by path.split('/') and filter(None, words):
\* the non-empty words of the normalised path ("." for the empty path).
NormWords(s) ==
    LET rooted == StartsWith(s, <<"/">>)
        comps == NormComps(Split(s), rooted, <<>>)
    IN  IF comps = <<>> /\ ~rooted THEN <<".">> ELSE comps

\* translate_path drops the words that are os.curdir or os.pardir (on POSIX
\* os.path.dirname(word) is empty for every word, a word holds no "/").
IgnoredWordNone(word) == FALSE
IgnoredWord(word) == word \in {".", ".."}

\* SimpleHTTPRequestHandler.translate_path(path) with self.directory =
\* DIRECTORY, which __init__ passes.
TranslatePath(path) ==
    LET p == BeforeQuery(path)
        words == NormWords(Unquote(p))
    IN  [ parts |-> DIRECTORY \o SelectSeq(words, LAMBDA w : ~IgnoredWord(w)),
          trailing |-> EndsWithSlash(p) ]

\* urllib.parse.urlsplit(path).path for a path with no scheme and no host
UrlsplitPath(path) == BeforeQuery(path)

\* --------------------------------------------------------------- requests
\* An HTTP version word: whether it starts with "HTTP/", and the numbers
\* between the dots after it (-1 for a part that is no number).
Version(h, n) == [http |-> h, nums |-> n]
HTTP09 == Version(TRUE, <<0, 9>>)     \* default_request_version
HTTP11 == Version(TRUE, <<1, 1>>)
NoVersion == Version(FALSE, <<>>)     \* the empty string

\* The request headers the handler reads: If-Modified-Since (<<>> when
\* absent, else its date, -1 for a date that does not parse), whether
\* If-None-Match is present, and whether the header block is over the
\* limits of http.client.parse_headers.
Hdr(i, n, o) == [ims |-> i, inm |-> n, oversize |-> o]
NoHdr == Hdr(<<>>, FALSE, FALSE)

\* What a client sends: nothing at all ("eof"), a request line of more
\* than 65536 bytes ("toolong"), or a request line of nwords words, the
\* first the command, the second the path, the last (of three or more)
\* the version; then the headers (an HTTP/0.9 request, of two words, has
\* none).
Req(k, n, c, p, v, h) ==
    [kind |-> k, nwords |-> n, command |-> c, path |-> p, version |-> v, hdr |-> h]

\* ------------------------------------------------------------ the handler
\* One piece of what the handler writes: the status line, a header, the
\* blank line that ends the headers, or a body (val its bytes, src the
\* file they were read from).
Item(k, c, key, v, s) == [kind |-> k, code |-> c, key |-> key, val |-> v, src |-> s]

\* The handler object the server creates for a connection.
NewHandler ==
    [ command |-> "None", path |-> <<>>, request_version |-> NoVersion,
      close_connection |-> TRUE, headers |-> NoHdr,
      headers_buffer |-> <<>>, wfile |-> <<>> ]

\* BaseHTTPRequestHandler.send_response_only
SendResponseOnly(h, code) ==
    IF h.request_version # HTTP09
    THEN [h EXCEPT !.headers_buffer = Append(@, Item("status", code, "", "", <<>>))]
    ELSE h

\* BaseHTTPRequestHandler.send_header
SendHeader(h, keyword, value) ==
    LET h1 == IF h.request_version # HTTP09
              THEN [h EXCEPT !.headers_buffer =
                        Append(@, Item("header", 0, keyword, value, <<>>))]
              ELSE h
    IN  IF keyword = "Connection" /\ value = "close"
        THEN [h1 EXCEPT !.close_connection = TRUE]
        ELSE IF keyword = "Connection" /\ value = "keep-alive"
        THEN [h1 EXCEPT !.close_connection = FALSE]
        ELSE h1

\* BaseHTTPRequestHandler.send_response
SendResponse(h, code) ==
    SendHeader(SendHeader(SendResponseOnly(h, code), "Server", "SimpleHTTP"),
               "Date", "now")

\* BaseHTTPRequestHandler.end_headers and flush_headers
BaseEndHeaders(h) ==
    IF h.request_version # HTTP09
    THEN [h EXCEPT !.wfile = @ \o h.headers_buffer
                                \o <<Item("end", 0, "", "", <<>>)>>,
                   !.headers_buffer = <<>>]
    ELSE h

\* MissionControlHandler.end_headers
EndHeaders(h) ==
    BaseEndHeaders(
      SendHeader(
        SendHeader(
          SendHeader(
            SendHeader(h, "Access-Control-Allow-Origin", "*"),
            "Access-Control-Allow-Methods", "GET, OPTIONS"),
          "Access-Control-Allow-Headers", "Content-Type"),
        "Cache-Control", "no-store, no-cache, must-revalidate"))

WriteBody(h, bytes, src) ==
    [h EXCEPT !.wfile = Append(@, Item("body", 0, "", bytes, src))]

\* BaseHTTPRequestHandler.send_error
SendError(h, code) ==
    LET h1 == SendHeader(SendResponse(h, code), "Connection", "close")
        hasBody == code >= 200 /\ code \notin {204, 205, 304}
        h2 == IF hasBody
              THEN SendHeader(SendHeader(h1, "Content-Type", "text/html;charset=utf-8"),
                              "Content-Length", "error page")
              ELSE h1
        h3 == EndHeaders(h2)
    IN  IF h.command # "HEAD" /\ hasBody
        THEN WriteBody(h3, "error page", <<>>)
        ELSE h3

\* The version word is well formed: "HTTP/", two parts, both numbers.
VersionOk(v) ==
    /\ v.http
    /\ Len(v.nums) = 2
    /\ \A i \in 1..Len(v.nums) : v.nums[i] >= 0

\* parse_request on a path that starts with "//": '/' + path.lstrip('/')
CollapseSlashes(raw) ==
    IF StartsWith(raw, <<"/", "/">>) THEN <<"/">> \o LStripSlashes(raw) ELSE raw

\* BaseHTTPRequestHandler.parse_request (protocol_version is "HTTP/1.0",
\* so no request keeps the connection open and Expect is not looked at).
\* ok: whether it returned True.
ParseRequest(h0, req) ==
    LET h1 == [h0 EXCEPT !.command = "None", !.request_version = HTTP09,
                         !.close_connection = TRUE]
        n == req.nwords
        v == req.version
        h2 == IF n >= 3 THEN [h1 EXCEPT !.request_version = v] ELSE h1
        raw == req.path
        h3 == [h2 EXCEPT !.command = req.command,
                         !.path = CollapseSlashes(raw)]
    IN  IF n = 0 THEN [h |-> h1, ok |-> FALSE]
        ELSE IF n >= 3 /\ ~VersionOk(v) THEN [h |-> SendError(h1, 400), ok |-> FALSE]
        ELSE IF n >= 3 /\ v.nums[1] >= 2 THEN [h |-> SendError(h1, 505), ok |-> FALSE]
        ELSE IF ~(2 <= n /\ n <= 3) THEN [h |-> SendError(h2, 400), ok |-> FALSE]
        ELSE IF n = 2 /\ req.command # "GET"
             THEN [h |-> SendError(h2, 400), ok |-> FALSE]
        ELSE IF req.hdr.oversize THEN [h |-> SendError(h3, 431), ok |-> FALSE]
        ELSE [h |-> [h3 EXCEPT !.headers = req.hdr], ok |-> TRUE]

\* The conditional request of send_head: If-Modified-Since is present,
\* If-None-Match is not, the date parses and is not before the file's
\* modification time.
NotModified(h) ==
    /\ h.headers.ims # <<>>
    /\ ~h.headers.inm
    /\ h.headers.ims[1] >= 0
    /\ FileMTime <= h.headers.ims[1]

\* SimpleHTTPRequestHandler.send_head on the tree c.  f: the open file it
\* returns (None: open = FALSE).
NoneFile == [open |-> FALSE, bytes |-> "", src |-> <<>>]

SendHead(h, c) ==
    LET path == TranslatePath(h.path)
        index == [parts |-> Append(path.parts, "index.html"), trailing |-> FALSE]
        index2 == [parts |-> Append(path.parts, "index.htm"), trailing |-> FALSE]
        dir == isdir(c, path)
        target == IF dir /\ isfile(c, index) THEN index
                  ELSE IF dir /\ isfile(c, index2) THEN index2
                  ELSE path
        at == Locate(c, target)
    IN  IF dir /\ ~EndsWithSlash(UrlsplitPath(h.path))
        THEN [h |-> EndHeaders(SendHeader(SendHeader(SendResponse(h, 301),
                                                     "Location", "path/"),
                                          "Content-Length", "0")),
              f |-> NoneFile]
        ELSE IF dir /\ target = path
        THEN \* list_directory (every directory of the tree can be listed)
             [h |-> EndHeaders(SendHeader(SendHeader(SendResponse(h, 200),
                                                     "Content-type", "text/html"),
                                          "Content-Length", "listing")),
              f |-> [open |-> TRUE, bytes |-> "directory listing", src |-> at.real]]
        ELSE IF target.trailing
        THEN [h |-> SendError(h, 404), f |-> NoneFile]
        ELSE IF ~(at.node.type = "file" /\ at.node.readable)
        THEN \* open() raises OSError
             [h |-> SendError(h, 404), f |-> NoneFile]
        ELSE IF NotModified(h)
        THEN [h |-> EndHeaders(SendResponse(h, 304)), f |-> NoneFile]
        ELSE [h |-> EndHeaders(
                      SendHeader(
                        SendHeader(
                          SendHeader(SendResponse(h, 200), "Content-type", "guessed"),
                          "Content-Length", at.node.content),
                        "Last-Modified", "mtime")),
              f |-> [open |-> TRUE, bytes |-> at.node.content, src |-> at.real]]

\* SimpleHTTPRequestHandler.do_GET: send_head, then copyfile
BaseDoGET(h, c) ==
    LET r == SendHead(h, c)
    IN  IF r.f.open THEN WriteBody(r.h, r.f.bytes, r.f.src) ELSE r.h

\* SimpleHTTPRequestHandler.do_HEAD
DoHEAD(h, c) == SendHead(h, c).h

DoGETRewriteRooted(h, c) ==
    BaseDoGET(IF StartsWith(h.path, <<"/">>) THEN [h EXCEPT !.path = IndexPath] ELSE h, c)

\* MissionControlHandler.do_GET
DoGET(h, c) ==
    BaseDoGET(IF h.path = <<"/">> THEN [h EXCEPT !.path = IndexPath] ELSE h, c)

HasMethodAny(command) == TRUE

\* hasattr(self, 'do_' + self.command): the class and its bases define
\* do_GET and do_HEAD and no other do_ method.
HasMethod(command) == command \in {"GET", "HEAD"}

\* BaseHTTPRequestHandler.handle_one_request for what the client sent
HandleOneRequest(h0, req, c) ==
    IF req.kind = "toolong"
    THEN SendError([h0 EXCEPT !.request_version = NoVersion, !.command = ""], 414)
    ELSE IF req.kind = "eof"
    THEN [h0 EXCEPT !.close_connection = TRUE]
    ELSE LET r == ParseRequest(h0, req)
         IN  IF ~r.ok THEN r.h
             ELSE IF ~HasMethod(r.h.command) THEN SendError(r.h, 501)
             ELSE IF r.h.command = "GET" THEN DoGET(r.h, c)
             ELSE IF r.h.command = "HEAD" THEN DoHEAD(r.h, c)
             ELSE r.h

\* ----------------------------------------------------------------- inputs
Tokens == {"/"} \cup Names

\* The paths of exactly n tokens with no two names side by side.
RECURSIVE PathsOfLen(_)
PathsOfLen(n) ==
    IF n = 0 THEN {<<>>}
    ELSE {Append(p, t) : p \in PathsOfLen(n - 1), t \in Tokens}
         \ {q \in {Append(p, t) : p \in PathsOfLen(n - 1), t \in Tokens} :
                Len(q) >= 2 /\ q[Len(q)] \in Names /\ q[Len(q) - 1] \in Names}

PathInputs ==
    {p \o q : p \in UNION {PathsOfLen(k) : k \in 0..MaxPathLen},
              q \in {<<>>, <<"?q">>}} \ {<<>>}

Methods == {"GET", "OPTIONS", "HEAD", "POST"}

Versions == {HTTP11, Version(TRUE, <<2, 0>>), Version(TRUE, <<1, -1>>)}

Hdrs ==
    {NoHdr, Hdr(<<FileMTime>>, FALSE, FALSE), Hdr(<<FileMTime - 1>>, FALSE, FALSE),
     Hdr(<<FileMTime>>, TRUE, FALSE),
     Hdr(<<>>, FALSE, TRUE)}

NoReq == Req("none", 0, "", <<>>, NoVersion, NoHdr)

Requests ==
    {Req("eof", 0, "", <<>>, NoVersion, NoHdr),
     Req("toolong", 0, "", <<>>, NoVersion, NoHdr),
     Req("line", 0, "", <<>>, NoVersion, NoHdr)}
    \cup {Req("line", 1, m, <<>>, NoVersion, NoHdr) : m \in Methods}
    \cup {Req("line", 2, m, p, NoVersion, NoHdr) : m \in Methods, p \in PathInputs}
    \cup {Req("line", 3, m, p, v, hd) :
             m \in Methods, p \in PathInputs, v \in Versions, hd \in Hdrs}
    \cup {Req("line", 4, m, <<"/">>, v, NoHdr) : m \in Methods, v \in Versions}

\* ------------------------------------------------------------------ state
VARIABLES
    pc,                \* where main() is
    fs,                \* the tree of the deployment (an element of FsChoices)
    portFree,          \* whether ("", PORT) can be bound
    cwd,               \* the process's working directory
    sock,              \* the listening socket: "none", "listening", "closed"
    out,               \* what the process has printed and done, in order
    conn,              \* what the client of the current connection sent
    h,                 \* the handler of the current connection
    herr,              \* the handler of the current connection raised
    is_shut_down,      \* BaseServer.__is_shut_down (a threading.Event)
    shutdown_request,  \* BaseServer.__shutdown_request
    sigAt,             \* where main() was at each interrupt so far
    hadFailure,        \* some earlier request failed
    exitStatus         \* the exit status once pc = "exited", else -1

vars == <<pc, fs, portFree, cwd, sock, out, conn, h, herr, is_shut_down,
          shutdown_request, sigAt, hadFailure, exitStatus>>

server == <<sock, is_shut_down, shutdown_request>>
request == <<conn, h, herr, hadFailure>>
env == <<fs, portFree>>

InLoop == {"select", "handling", "close"}

\* What a client reads from the connection.
Status(hh) ==
    IF \E i \in 1..Len(hh.wfile) : hh.wfile[i].kind = "status"
    THEN hh.wfile[CHOOSE i \in 1..Len(hh.wfile) :
                      /\ hh.wfile[i].kind = "status"
                      /\ \A j \in 1..(i - 1) : hh.wfile[j].kind # "status"].code
    ELSE 0
HeadersOf(hh) ==
    {<<hh.wfile[i].key, hh.wfile[i].val>> :
        i \in {j \in 1..Len(hh.wfile) : hh.wfile[j].kind = "header"}}
Bodies(hh) == {hh.wfile[i] : i \in {j \in 1..Len(hh.wfile) : hh.wfile[j].kind = "body"}}

Init ==
    /\ pc = "chdir"
    /\ fs \in FsChoices
    /\ portFree \in BOOLEAN
    /\ cwd = <<"srv">>
    /\ sock = "none"
    /\ out = <<>>
    /\ conn = NoReq
    /\ h = NewHandler
    /\ herr = FALSE
    /\ is_shut_down = FALSE
    /\ shutdown_request = FALSE
    /\ sigAt = <<>>
    /\ hadFailure = FALSE
    /\ exitStatus = -1

\* ------------------------------------------------------------------ main()
\* os.chdir(DIRECTORY)
Chdir ==
    /\ pc = "chdir"
    /\ cwd' = DIRECTORY
    /\ pc' = "bind"
    /\ UNCHANGED <<env, server, out, request, sigAt, exitStatus>>

BindIgnoringFailure ==
    /\ pc = "bind"
    /\ sock' = IF portFree THEN "listening" ELSE "closed"
    /\ pc' = "banner"
    /\ UNCHANGED <<env, cwd, out, request, is_shut_down, shutdown_request,
                   sigAt, exitStatus>>

\* socketserver.TCPServer(("", PORT), MissionControlHandler): the
\* constructor binds and listens; when the bind fails it closes the socket
\* and raises OSError, which nothing in main() catches.
Bind ==
    /\ pc = "bind"
    /\ IF portFree
       THEN /\ sock' = "listening"
            /\ pc' = "banner"
            /\ UNCHANGED exitStatus
       ELSE /\ sock' = "closed"
            /\ pc' = "exited"
            /\ exitStatus' = 1
    /\ UNCHANGED <<env, cwd, out, request, is_shut_down, shutdown_request, sigAt>>

\* the four print calls that follow the bind
Banner ==
    /\ pc = "banner"
    /\ out' = Append(out, "banner")
    /\ pc' = "enter"
    /\ UNCHANGED <<env, cwd, server, request, sigAt, exitStatus>>

\* httpd.serve_forever() up to its try block: __is_shut_down.clear()
ServeForever ==
    /\ pc = "enter"
    /\ is_shut_down' = FALSE
    /\ pc' = "select"
    /\ UNCHANGED <<env, cwd, sock, shutdown_request, out, request, sigAt, exitStatus>>

\* The loop of serve_forever: a connection is ready, get_request accepts
\* it and finish_request creates its handler.
Accept ==
    /\ pc = "select"
    /\ ~shutdown_request
    /\ \E req \in Requests : conn' = req
    /\ h' = NewHandler
    /\ herr' = FALSE
    /\ pc' = "handling"
    /\ UNCHANGED <<env, cwd, server, out, sigAt, hadFailure, exitStatus>>

ContinueAfterErrorCrash == "crashed"

\* _handle_request_noblock: an Exception of the handler is reported by
\* handle_error, then the connection is closed like any other.
ContinueAfterError == "close"

\* finish_request: the handler runs (handle, then finish).
Process ==
    /\ pc = "handling"
    /\ h' = HandleOneRequest(h, conn, fs)
    /\ herr' = FALSE
    /\ hadFailure' = (hadFailure \/ Status(h') >= 400 \/ Status(h') = 0)
    /\ pc' = "close"
    /\ UNCHANGED <<env, cwd, server, out, conn, sigAt, exitStatus>>

\* The client closes the connection while the handler runs: reading or
\* writing raises ConnectionError in the handler and nothing reaches the
\* client.
ProcessDisconnect ==
    /\ pc = "handling"
    /\ herr' = TRUE
    /\ hadFailure' = TRUE
    /\ pc' = ContinueAfterError
    /\ UNCHANGED <<env, cwd, server, out, conn, h, sigAt, exitStatus>>

\* shutdown_request: the connection is closed, its handler is garbage, the
\* loop goes back to select.
CloseRequest ==
    /\ pc = "close"
    /\ conn' = NoReq
    /\ h' = NewHandler
    /\ herr' = FALSE
    /\ pc' = "select"
    /\ UNCHANGED <<env, cwd, server, out, sigAt, hadFailure, exitStatus>>

\* KeyboardInterrupt before the with block is entered: nothing catches it.
InterruptAtStartup ==
    /\ pc \in {"chdir", "bind"}
    /\ Len(sigAt) < MaxSigints
    /\ sigAt' = Append(sigAt, pc)
    /\ pc' = "exited"
    /\ exitStatus' = 130
    /\ UNCHANGED <<env, cwd, server, out, request>>

\* KeyboardInterrupt in the with block outside the try, or in the except
\* block: nothing catches it, the with block closes the server on the way
\* out.
InterruptUncaught ==
    /\ pc \in {"banner", "caught", "shutdown", "wait", "sysexit", "with_exit"}
    /\ Len(sigAt) < MaxSigints
    /\ sigAt' = Append(sigAt, pc)
    /\ sock' = "closed"
    /\ out' = Append(out, "socket closed")
    /\ pc' = "exited"
    /\ exitStatus' = 130
    /\ UNCHANGED <<env, cwd, is_shut_down, shutdown_request, request>>

\* KeyboardInterrupt inside the try of main() before serve_forever has
\* entered its own try: the except clause of main() catches it.
InterruptEntering ==
    /\ pc = "enter"
    /\ Len(sigAt) < MaxSigints
    /\ sigAt' = Append(sigAt, pc)
    /\ pc' = "caught"
    /\ UNCHANGED <<env, cwd, server, out, request, exitStatus>>

InterruptInLoopUncaught ==
    /\ pc \in InLoop
    /\ Len(sigAt) < MaxSigints
    /\ sigAt' = Append(sigAt, pc)
    /\ shutdown_request' = FALSE
    /\ is_shut_down' = TRUE
    /\ conn' = NoReq
    /\ h' = NewHandler
    /\ herr' = FALSE
    /\ sock' = "closed"
    /\ out' = Append(out, "socket closed")
    /\ pc' = "exited"
    /\ exitStatus' = 130
    /\ UNCHANGED <<env, cwd, hadFailure>>

\* KeyboardInterrupt in the loop of serve_forever, in select or in a
\* handler: the connection being handled is closed, the finally clause of
\* serve_forever sets __is_shut_down, the except clause of main() catches
\* the exception.
InterruptInLoop ==
    /\ pc \in InLoop
    /\ Len(sigAt) < MaxSigints
    /\ sigAt' = Append(sigAt, pc)
    /\ shutdown_request' = FALSE
    /\ is_shut_down' = TRUE
    /\ conn' = NoReq
    /\ h' = NewHandler
    /\ herr' = FALSE
    /\ pc' = "caught"
    /\ UNCHANGED <<env, cwd, sock, out, hadFailure, exitStatus>>

\* print("\n\nShutting down server...")
PrintShutdown ==
    /\ pc = "caught"
    /\ out' = Append(out, "shutdown message")
    /\ pc' = "shutdown"
    /\ UNCHANGED <<env, cwd, server, request, sigAt, exitStatus>>

\* httpd.shutdown(): sets __shutdown_request ...
Shutdown ==
    /\ pc = "shutdown"
    /\ shutdown_request' = TRUE
    /\ pc' = "wait"
    /\ UNCHANGED <<env, cwd, sock, is_shut_down, out, request, sigAt, exitStatus>>

\* ... and waits for __is_shut_down
ShutdownWait ==
    /\ pc = "wait"
    /\ is_shut_down
    /\ pc' = "sysexit"
    /\ UNCHANGED <<env, cwd, server, out, request, sigAt, exitStatus>>

\* sys.exit(0) raises SystemExit(0)
SysExit ==
    /\ pc = "sysexit"
    /\ pc' = "with_exit"
    /\ UNCHANGED <<env, cwd, server, out, request, sigAt, exitStatus>>

\* SystemExit(0) leaves the with block, which closes the server, and ends
\* the process.
WithExit ==
    /\ pc = "with_exit"
    /\ sock' = "closed"
    /\ out' = Append(out, "socket closed")
    /\ pc' = "exited"
    /\ exitStatus' = 0
    /\ UNCHANGED <<env, cwd, is_shut_down, shutdown_request, request, sigAt>>

MainStep ==
    \/ Chdir
    \/ Bind
    \/ Banner
    \/ ServeForever
    \/ PrintShutdown
    \/ Shutdown
    \/ ShutdownWait
    \/ SysExit
    \/ WithExit

Next ==
    \/ Chdir
    \/ Bind
    \/ Banner
    \/ ServeForever
    \/ Accept
    \/ Process
    \/ ProcessDisconnect
    \/ CloseRequest
    \/ InterruptAtStartup
    \/ InterruptUncaught
    \/ InterruptEntering
    \/ InterruptInLoop
    \/ PrintShutdown
    \/ Shutdown
    \/ ShutdownWait
    \/ SysExit
    \/ WithExit

Spec == Init /\ [][Next]_vars

\* main() is the one thread of the process: while a statement of it can
\* run, it does.  No client and no operator is obliged to do anything.
LiveSpec == Init /\ [][Next]_vars /\ WF_vars(MainStep)

\* ================================================================== claims
\* A request the parser accepts: a request line of a command and a path,
\* and either no version (HTTP/0.9, GET only) or a well-formed version
\* below 2.0, and a header block within the limits.
WellFormed(req) ==
    /\ req.kind = "line"
    /\ req.nwords \in {2, 3}
    /\ req.nwords = 2 => req.command = "GET"
    /\ req.nwords = 3 => VersionOk(req.version) /\ req.version.nums[1] < 2
    /\ ~req.hdr.oversize

\* The handler answered the well-formed request of the connection.
Answered == pc = "close" /\ ~herr /\ WellFormed(conn)

\* The request line carries a version, so the answer starts with a status
\* line.
Answered1x == Answered /\ conn.nwords = 3

IndexFile == <<"srv", "proj", "src", "html", "index.html">>
IndexBody == Item("body", 0, "", "<h1>ok</h1>", IndexFile)

\* Walking the components of a request path from the root directory
\* leaves the root directory at some point.
RECURSIVE Leaves(_, _)
Leaves(comps, depth) ==
    IF comps = <<>> THEN FALSE
    ELSE IF Head(comps) = ".." THEN depth = 0 \/ Leaves(Tail(comps), depth - 1)
    ELSE IF Head(comps) \in {"", "."} THEN Leaves(Tail(comps), depth)
    ELSE Leaves(Tail(comps), depth + 1)

Escapes(path) == Leaves(Split(Unquote(BeforeQuery(path))), 0)

\* C1 (as claimed): every response the server sends, whatever the method,
\* the path and the status, carries the four fixed headers.
C1_Claim == (pc = "close" /\ ~herr /\ h.wfile # <<>>) => FixedHeaders \subseteq HeadersOf(h)

C3_Contained ==
    \A b \in Bodies(h) :
        /\ b.src # <<>> => StartsWith(b.src, DIRECTORY)
        /\ b.val # "OUTSIDE"

C3_Witness ==
    /\ Answered
    /\ conn.command = "GET"
    /\ Escapes(conn.path)
    /\ \E b \in Bodies(h) : b.val = "INSIDE"

\* C4 (as claimed): a GET request whose path leaves the root directory
\* through parent-directory segments is answered 403 or 404.
C4_Claim == (Answered1x /\ conn.command = "GET" /\ Escapes(conn.path)) => Status(h) \in {403, 404}

\* C5 (as claimed): a GET request whose path resolves to something that
\* does not exist or is no regular file is answered 404, and 200 is
\* returned only for a readable regular file.
C5_Claim ==
    (Answered1x /\ conn.command = "GET") =>
        LET node == Locate(fs, TranslatePath(h.path)).node
        IN  /\ node.type # "file" => Status(h) = 404
            /\ Status(h) = 200 => node.type = "file" /\ node.readable

\* C6 (as claimed): an OPTIONS request is answered 200 or 204 with an
\* empty body and the fixed headers.
C6_Claim ==
    (Answered1x /\ conn.command = "OPTIONS") =>
        /\ Status(h) \in {200, 204}
        /\ Bodies(h) = {}
        /\ FixedHeaders \subseteq HeadersOf(h)

C8_Shutdown ==
    /\ [](pc = "exited" /\ exitStatus = 0 =>
            sock = "closed" /\ out = <<"banner", "shutdown message", "socket closed">>)
    /\ [](pc = "wait" /\ sigAt[1] \in InLoop => is_shut_down)
    /\ (Len(sigAt) = 1 /\ sigAt[1] \in InLoop)
          ~> ((pc = "exited" /\ exitStatus = 0) \/ Len(sigAt) > 1)

C8_Witness == pc = "exited" /\ exitStatus = 0 /\ sigAt = <<"handling">>

\* C9: nothing but an interrupt takes the server out of the accept loop,
\* in which the socket listens and the process runs, whatever the requests
\* and however they fail; and the answer to a request is the answer a
\* server that has served nothing gives to it.
C9_LoopGoesOn ==
    /\ [](pc \in InLoop => sock = "listening" /\ exitStatus = -1)
    /\ [][ /\ pc \in InLoop => (pc' \in InLoop \/ Len(sigAt') > Len(sigAt))
           /\ (pc = "handling" /\ pc' = "close" /\ ~herr') =>
                 h' = HandleOneRequest(NewHandler, conn, fs) ]_vars

C9_Witness == pc = "close" /\ ~herr /\ hadFailure /\ Status(h) = 200

\* C10: when the bind fails the process ends with a non-zero exit status,
\* having printed no banner, entered no loop and handled no request; the
\* loop is entered only with the socket bound and the banner printed.
C10_BindFailure ==
    /\ [](pc \in InLoop => portFree /\ sock = "listening" /\ out = <<"banner">>)
    /\ [](~portFree => /\ out = <<>>
                       /\ pc \notin InLoop \cup {"banner", "enter"}
                       /\ conn = NoReq
                       /\ sock # "listening"
                       /\ pc = "exited" => exitStatus # 0)
    /\ ~portFree ~> (pc = "exited" /\ exitStatus # 0)

C10_Witness == ~portFree /\ pc = "exited" /\ exitStatus = 1 /\ sigAt = <<>>

====
